---- MODULE Spec2Model ----
(***************************************************************************)
(* The document pipeline of AILawer: the backend RAGService                *)
(* (backend/app/services/rag.py) behind the /rag routes, its registry      *)
(* document_sets.json (backend/app/database/json_db.py), the subscription  *)
(* gate (backend/app/services/subscription.py), and the stand-alone        *)
(* pipeline of Final/main.py with its own Pinecone index.                  *)
(*                                                                         *)
(* The repository holds two applications, each started on its own          *)
(* (backend/main.py and Final/main.py); `app` is the one that runs. Both   *)
(* run their handlers without an await between the first and the last      *)
(* registry or index step, so one handler is one action.                   *)
(*                                                                         *)
(* Abstractions: a chunk is its position 1..n in the chunk list of its     *)
(* ingestion; a vector search of namespace N with limit k returns the      *)
(* first k chunks stored under N (the ranking is Pinecone's); uuid4 never  *)
(* repeats, so the i-th draw is the number i; created_at is left out of    *)
(* the registry record; a batch write that raises stores none of its       *)
(* chunks.                                                                 *)
(*                                                                         *)
(* `last` is what the most recent call returned and did (its result, the   *)
(* search it sent, the batches it wrote), not its arguments: a statement   *)
(* about a call with given arguments is made of the operator that models   *)
(* the call, for every argument, in every reachable state.                 *)
(*                                                                         *)
(* The chunker (semantic_chunk_documents) and the formatting of sources    *)
(* work on texts, sequences of characters, and are run on their own in     *)
(* SpecChunker: all_docs is the page list handed to the chunker and        *)
(* semantic_chunks what it returned.                                       *)
(*                                                                         *)
(* SpecInterleaved runs the registry calls of two server processes on one  *)
(* data directory, a step being one read or one write of                   *)
(* document_sets.json (`workers` holds what each process read). SpecChat   *)
(* runs the chat service (backend/app/services/chat.py) on                 *)
(* chat_sessions.json.                                                     *)
(***************************************************************************)
EXTENDS Integers, Sequences, FiniteSets, TLC

\* ---------------------------------------------------------------- bounds
\* uuid4 draws (ingestions that get as far as a namespace) in one run
MaxNamespaces == 2
\* length of a file_paths list
MaxFiles == 1
\* chunks the loaders and the chunker yield for one ingestion
MaxChunks == 3

\* ------------------------------------------------------ program constants
DefaultBatchSize == 64
K_MAX == 10
DefaultK == 5
FinalK == 5

\* ------------------------------------------------------------- input sets
\* users.json holds two users; Ghost is an id with no record
Users == {"alice", "bob"}
Ghost == "ghost"
Callers == Users \cup {Ghost}
Tiers == {"Basic", "Standard", "Premium", "Platinum"}
\* file paths by extension
Files == {"a.pdf", "d.txt"}
FileLists == UNION {[1..m -> Files] : m \in 0..MaxFiles}
BatchSizes == {2, DefaultBatchSize}
KInputs == {DefaultK, K_MAX + 1}
Questions == {"  ", "what is the notice period"}
\* namespace ids: "user_<user_id>_<hex>" in the backend, "<hex>" in Final
HexOnly == "hex"
Namespaces == Users \X (1..MaxNamespaces)
FinalNamespaces == {HexOnly} \X (1..MaxNamespaces)
NoNamespace == <<"", 0>>

Min(a, b) == IF a <= b THEN a ELSE b

VARIABLES
    app,              \* the application that runs: "backend" or "final"
    tier_limits,      \* SubscriptionService.TIER_LIMITS[tier]["features"]
    users,            \* users.json: user id -> subscription_tier
    pc,               \* RAGService.pc is set (PINECONE_API_KEY present)
    embeddings,       \* RAGService.embeddings is set
    llm,              \* RAGService.llm is set
    document_sets,    \* document_sets.json: namespace -> record
    legalai_index,    \* Pinecone index "legalai-index": namespace -> chunks
    hf_index,         \* Pinecone index "hugging-face-index" of Final/main.py
    uuids,            \* uuid4 draws so far
    last,             \* the most recent call: its request and its outcome
    all_docs,         \* the pages handed to semantic_chunk_documents
    semantic_chunks,  \* the chunk list it returned
    workers,          \* server processes inside a registry call: what each
                      \* loaded from document_sets.json and is about to save
    chat_sessions     \* chat_sessions.json: session id -> session

\* the state of a run of the chunker on its own
chunker_vars == <<all_docs, semantic_chunks>>

vars == <<app, tier_limits, users, pc, embeddings, llm, document_sets,
          legalai_index, hf_index, uuids, last, all_docs, semantic_chunks,
          workers, chat_sessions>>

\* ------------------------------------------------------------ subscription
TIER_LIMITS ==
    [t \in Tiers |->
        CASE t = "Basic"    -> {"chat_advice", "case_study_limited"}
          [] t = "Standard" -> {"chat_advice", "case_study_unlimited"}
          [] t = "Premium"  -> {"chat_advice", "case_study_unlimited",
                                "expert_advice_limited"}
          [] t = "Platinum" -> {"chat_advice", "case_study_unlimited",
                                "expert_advice_unlimited"}]

\* The table with the feature the ingestion gate asks for listed for the paid
\* tiers: the configuration under which the body of
\* process_and_store_documents below the gate runs at all.
EntitledTierLimits ==
    [t \in Tiers |->
        IF t = "Basic" THEN TIER_LIMITS[t]
        ELSE TIER_LIMITS[t] \cup {"document_upload"}]

\* a gate that lets every caller through
feature_granted(user_id, feature) == TRUE

check_feature_access(user_id, feature) ==
    /\ user_id \in DOMAIN users
    /\ feature \in tier_limits[users[user_id]]

\* ------------------------------------------------------------- the registry
\* a record that counts the files instead of the chunks
DocumentSetCountingFiles(user_id, file_paths, chunk_count) ==
    [user_id |-> user_id, file_paths |-> file_paths,
     chunk_count |-> Len(file_paths), status |-> "ready"]

\* the record process_and_store_documents builds for db.store_document_set
DocumentSet(user_id, file_paths, chunk_count) ==
    [user_id |-> user_id, file_paths |-> file_paths,
     chunk_count |-> chunk_count, status |-> "ready"]

\* the file written with the new record alone
store_alone(sets, id, document_set) == [n \in {id} |-> document_set]

\* the new record written over every id of the file
store_over_all(sets, id, document_set) ==
    [n \in DOMAIN sets \cup {id} |-> document_set]

\* document_sets[document_set_id] = document_set, then the file is saved
store_document_set(sets, id, document_set) ==
    [n \in DOMAIN sets \cup {id} |-> IF n = id THEN document_set ELSE sets[n]]

\* the file saved as it was read
db_delete_nothing(sets, id) == sets

\* every record of the owner of `id` dropped
db_delete_user_sets(sets, id) ==
    [n \in {m \in DOMAIN sets :
               id \in DOMAIN sets => sets[m].user_id # sets[id].user_id} |-> sets[n]]

\* del document_sets[document_set_id] when present, then the file is saved
db_delete_document_set(sets, id) ==
    [n \in DOMAIN sets \ {id} |-> sets[n]]

\* the records of every user
get_all_document_sets(sets, user_id) == DOMAIN sets

\* [ds for ds in document_sets.values() if ds.get("user_id") == user_id], by id
get_user_document_sets(sets, user_id) ==
    {n \in DOMAIN sets : sets[n].user_id = user_id}

\* ------------------------------------------------------------ the call record
\* op: the entry point; http: the route's status (0: not a route); raised: an
\* exception left the function; ns: the namespace an ingestion drew; loaded:
\* load_documents calls made; chunks: len(chunks); attempted: the batches
\* whose write was started, in order; stored: the numbers of those that were
\* stored; registered: db.store_document_set was called; searched, search_k:
\* a vector search was sent, with this k; document_sets: the list GET
\* /rag/document-sets returned
NoCall ==
    [op |-> "none", ns |-> NoNamespace, http |-> 0,
     raised |-> FALSE, success |-> FALSE, error |-> "", sources |-> <<>>,
     searched |-> FALSE, search_k |-> 0, loaded |-> 0,
     chunks |-> 0, attempted |-> <<>>, stored |-> {},
     registered |-> FALSE, document_sets |-> {}, session_id |-> 0]

Call(op) == [NoCall EXCEPT !.op = op]

\* a loader for every extension
supports_any(file_path) == TRUE

\* ------------------------------------------------------------ ingestion
\* load_documents: the loader is chosen by extension, anything else raises
supported(file_path) == file_path \in {"a.pdf", "b.docx"}

\* Final/main.py's load_documents knows more extensions; of Files the same two
final_supported(file_path) == file_path \in {"a.pdf", "b.docx"}

\* the /rag/upload route's allowed_extensions
route_allowed(file_path) == file_path \in {"a.pdf", "b.docx", "c.doc"}

\* load_documents calls made by "for fp in file_paths": all of them, or up to
\* and including the first that raises
load_calls(file_paths, ok(_)) ==
    IF \E i \in 1..Len(file_paths) : ~ok(file_paths[i])
    THEN CHOOSE i \in 1..Len(file_paths) :
            /\ ~ok(file_paths[i])
            /\ \A j \in 1..(i - 1) : ok(file_paths[j])
    ELSE Len(file_paths)

all_loaded(file_paths, ok(_)) == \A i \in 1..Len(file_paths) : ok(file_paths[i])

\* the slice written chunks[i:i+batch_size-1]
batch_slice_short(i, n, batch_size) ==
    [x \in 1..(Min(i + batch_size - 1, n) - i) |-> i + x]

\* chunks[i:i+batch_size] of a chunk list of length n, as chunk positions
batch_slice(i, n, batch_size) ==
    [x \in 1..(Min(i + batch_size, n) - i) |-> i + x]

\* for i in range(0, len(chunks), batch_size): the batches in loop order
RECURSIVE batches_from(_, _, _)
batches_from(i, n, batch_size) ==
    IF i >= n THEN <<>>
    ELSE <<batch_slice(i, n, batch_size)>> \o batches_from(i + batch_size, n, batch_size)

batch_list(n, batch_size) == batches_from(0, n, batch_size)

\* total_batches = (len(chunks) + batch_size - 1) // batch_size
total_batches(n, batch_size) == (n + batch_size - 1) \div batch_size

RECURSIVE flatten(_)
flatten(seqs) ==
    IF seqs = <<>> THEN <<>> ELSE Head(seqs) \o flatten(Tail(seqs))

\* the batches of `batches` numbered in `stored`, in batch order
stored_chunks(batches, stored) ==
    flatten([j \in 1..Len(batches) |-> IF j \in stored THEN batches[j] ELSE <<>>])

\* RAGService: PineconeVectorStore.from_documents is called batch after batch
\* inside the loop; the first call that raises leaves the loop (fail_at = 0:
\* none raises). The batch numbers whose write was started.
service_attempted(nb, fail_at) ==
    IF fail_at = 0 THEN 1..nb ELSE 1..fail_at

\* the batches written before the failure deleted again
stored_rolled_back(nb, fail_at) ==
    IF fail_at = 0 THEN 1..nb ELSE {}

\* the batch numbers whose write returned
service_stored(nb, fail_at) ==
    IF fail_at = 0 THEN 1..nb ELSE 1..(fail_at - 1)

\* a store_document_set moved into a finally clause
registers_always(fail_at) == TRUE

\* db.store_document_set is reached when no from_documents call raised
service_registers(fail_at) == fail_at = 0

\* Final/main.py: asyncio.gather runs every upsert_batch task; a task that
\* raises does not stop the others (failing: the batch numbers that raise)
gather_attempted(nb, failing) == 1..nb

gather_stored(nb, failing) == (1..nb) \ failing

\* the two early returns left out
backends_unchecked == TRUE

\* the early returns on self.pc and self.embeddings
backends_configured == pc /\ embeddings

add_vectors(index, namespace, chunks) ==
    [index EXCEPT ![namespace] = @ \o chunks]

\* RAGService.process_and_store_documents: the call record and the state it
\* leaves. n: the chunks semantic_chunk_documents returns for the loaded pages.
process_and_store_documents(user_id, file_paths, batch_size, n, fail_at) ==
    LET call == Call("ingest")
        same == [sets |-> document_sets, index |-> legalai_index, uuids |-> uuids]
        namespace == <<user_id, uuids + 1>>
        batches == batch_list(n, batch_size)
        nb == Len(batches)
        attempted == service_attempted(nb, fail_at)
        stored == service_stored(nb, fail_at)
        written == add_vectors(legalai_index, namespace,
                               stored_chunks(batches, stored))
        ran == [call EXCEPT !.ns = namespace, !.loaded = Len(file_paths),
                            !.chunks = n,
                            !.attempted = [j \in attempted |-> batches[j]],
                            !.stored = stored]
    IN  IF ~check_feature_access(user_id, "document_upload")
        THEN same @@
             [call |-> [call EXCEPT !.error =
                 "Document upload not available for your subscription tier"]]
        ELSE IF ~backends_configured
        THEN same @@
             [call |-> [call EXCEPT !.error =
                 IF ~pc THEN "Pinecone not configured"
                 ELSE "Embeddings model not available"]]
        ELSE IF ~all_loaded(file_paths, supported)
        THEN same @@
             [call |-> [call EXCEPT
                 !.loaded = load_calls(file_paths, supported),
                 !.error = "Error processing documents: Unsupported file format"]]
        ELSE IF ~service_registers(fail_at)
        THEN [sets |-> document_sets, index |-> written, uuids |-> uuids + 1,
              call |-> [ran EXCEPT !.error =
                 "Error processing documents: batch write failed"]]
        ELSE [sets |-> store_document_set(document_sets, namespace,
                          DocumentSet(user_id, file_paths, n)),
              index |-> written, uuids |-> uuids + 1,
              call |-> [ran EXCEPT !.success = TRUE, !.registered = TRUE]]

\* the inputs of one ingestion: the chunk count the files yield and the batch
\* that fails; an empty file list yields no page, so no chunk
IngestInputs(file_paths, batch_size) ==
    {c \in [n : 0..MaxChunks, fail_at : 0..MaxChunks] :
        /\ file_paths = <<>> => c.n = 0
        /\ c.fail_at <= Len(batch_list(c.n, batch_size))}

\* a namespace is drawn only when the loop over the batches is reached
draws_namespace(outcome) == outcome.call.ns # NoNamespace

\* a direct call of RAGService.process_and_store_documents
ServiceUpload(user_id, file_paths, batch_size) ==
    \E c \in IngestInputs(file_paths, batch_size) :
        LET out == process_and_store_documents(
                        user_id, file_paths, batch_size, c.n, c.fail_at)
        IN  /\ app = "backend"
            /\ draws_namespace(out) => uuids < MaxNamespaces
            /\ document_sets' = out.sets
            /\ legalai_index' = out.index
            /\ uuids' = out.uuids
            /\ last' = out.call
            /\ UNCHANGED <<chunker_vars, workers, chat_sessions, app, tier_limits, users, pc, embeddings, llm, hf_index>>

\* POST /rag/upload for the authenticated user: a file outside
\* allowed_extensions and an empty upload raise 400 inside the handler's try,
\* an error result of the service raises 400 there too, and the handler's
\* "except Exception" turns each of them into a 500
route_upload(user_id, file_paths, n, fail_at) ==
    LET call == Call("route_upload")
        same == [sets |-> document_sets, index |-> legalai_index, uuids |-> uuids]
        out == process_and_store_documents(
                    user_id, file_paths, DefaultBatchSize, n, fail_at)
    IN  IF ~all_loaded(file_paths, route_allowed)
        THEN same @@ [call |-> [call EXCEPT !.http = 500,
                 !.error = "Error processing documents: 400: Unsupported file type"]]
        ELSE IF file_paths = <<>>
        THEN same @@ [call |-> [call EXCEPT !.http = 500,
                 !.error = "Error processing documents: 400: No valid files uploaded"]]
        ELSE [out EXCEPT !.call =
                 [@ EXCEPT !.op = "route_upload",
                           !.http = IF out.call.success THEN 200 ELSE 500]]

RouteUpload(user_id, file_paths) ==
    \E c \in IngestInputs(file_paths, DefaultBatchSize) :
        LET out == route_upload(user_id, file_paths, c.n, c.fail_at)
        IN  /\ app = "backend"
            /\ draws_namespace(out) => uuids < MaxNamespaces
            /\ document_sets' = out.sets
            /\ legalai_index' = out.index
            /\ uuids' = out.uuids
            /\ last' = out.call
            /\ UNCHANGED <<chunker_vars, workers, chat_sessions, app, tier_limits, users, pc, embeddings, llm, hf_index>>

\* Final/main.py process_and_store_documents behind POST /upload: no gate and
\* no registry; a loader or a batch that raises propagates to the route, which
\* answers 500 without the namespace
final_upload(file_paths, batch_size, n, failing) ==
    LET call == Call("final_upload")
        namespace == <<HexOnly, uuids + 1>>
        batches == batch_list(n, batch_size)
        nb == Len(batches)
        attempted == gather_attempted(nb, failing)
        stored == gather_stored(nb, failing)
        ran == [call EXCEPT !.ns = namespace, !.loaded = Len(file_paths),
                            !.chunks = n,
                            !.attempted = [j \in attempted |-> batches[j]],
                            !.stored = stored]
    IN  IF ~all_loaded(file_paths, final_supported)
        THEN [index |-> hf_index, uuids |-> uuids,
              call |-> [call EXCEPT !.http = 500,
                 !.loaded = load_calls(file_paths, final_supported),
                 !.error = "Unsupported file format"]]
        ELSE [index |-> add_vectors(hf_index, namespace,
                                    stored_chunks(batches, stored)),
              uuids |-> uuids + 1,
              call |-> IF stored = 1..nb
                       THEN [ran EXCEPT !.http = 200, !.success = TRUE]
                       ELSE [ran EXCEPT !.http = 500,
                                        !.error = "batch write failed"]]

FinalUpload(file_paths, batch_size) ==
    \E n \in (IF file_paths = <<>> THEN {0} ELSE 0..MaxChunks) :
    \E failing \in SUBSET (1..Len(batch_list(n, batch_size))) :
        LET out == final_upload(file_paths, batch_size, n, failing)
        IN  /\ app = "final"
            /\ draws_namespace(out) => uuids < MaxNamespaces
            /\ hf_index' = out.index
            /\ uuids' = out.uuids
            /\ last' = out.call
            /\ UNCHANGED <<chunker_vars, workers, chat_sessions, app, tier_limits, users, pc, embeddings, llm,
                           document_sets, legalai_index>>

\* ---------------------------------------------------------------- answering
\* the ownership test dropped: any registered namespace passes
registered_only(sets, namespace, user_id) == namespace \in DOMAIN sets

\* the lookup's miss not tested: only a record of another user is refused
owner_if_present(sets, namespace, user_id) ==
    namespace \in DOMAIN sets => sets[namespace].user_id = user_id

\* the registry lookup and ownership test of query_documents and
\* delete_document_set
namespace_access(sets, namespace, user_id) ==
    /\ namespace \in DOMAIN sets
    /\ sets[namespace].user_id = user_id

\* the retriever's search restricted to `namespace`: at most k stored chunks,
\* each named by the namespace it was written under
vector_search(index, namespace, k) ==
    [i \in 1..Min(k, Len(index[namespace])) |-> <<namespace, index[namespace][i]>>]

\* steps of answering that may raise: open_store (from_existing_index),
\* build_chain (RetrievalQA.from_chain_type) and invoke (qa_chain.invoke, which
\* sends the search to the index and then the prompt to the model)
QuerySteps == {"none", "open_store", "build_chain", "invoke"}
search_issued(fail) == fail \in {"none", "invoke"}

\* RAGService.query_documents
query_documents(query, namespace, user_id, k, fail) ==
    LET call == Call("query")
    IN  IF ~pc THEN [call EXCEPT !.error = "Pinecone not configured"]
        ELSE IF ~embeddings
        THEN [call EXCEPT !.error = "Embeddings model not available"]
        ELSE IF ~llm THEN [call EXCEPT !.error = "LLM not available"]
        ELSE IF ~namespace_access(document_sets, namespace, user_id)
        THEN [call EXCEPT !.error = "Document set not found or access denied"]
        ELSE IF fail # "none"
        THEN [call EXCEPT !.error = "Error querying documents",
                          !.searched = search_issued(fail),
                          !.search_k = IF search_issued(fail) THEN k ELSE 0]
        ELSE [call EXCEPT !.success = TRUE, !.searched = TRUE, !.search_k = k,
                          !.sources = vector_search(legalai_index, namespace, k)]

\* a query that also drops the record of the namespace it names
QueryDroppingRecord(query, namespace, user_id, k, fail) ==
    /\ app = "backend"
    /\ last' = query_documents(query, namespace, user_id, k, fail)
    /\ document_sets' = db_delete_document_set(document_sets, namespace)
    /\ UNCHANGED <<chunker_vars, workers, chat_sessions, app, tier_limits,
                   users, pc, embeddings, llm, legalai_index, hf_index, uuids>>

ServiceQuery(query, namespace, user_id, k, fail) ==
    /\ app = "backend"
    /\ last' = query_documents(query, namespace, user_id, k, fail)
    /\ UNCHANGED <<chunker_vars, workers, chat_sessions, app, tier_limits, users, pc, embeddings, llm, document_sets,
                   legalai_index, hf_index, uuids>>

\* k=min(k, 10) of the /rag/query route
route_k(k) == Min(k, K_MAX)

\* query.strip() is empty
blank(query) == query \in {"", "  "}

\* POST /rag/query for the authenticated user
route_query(query, namespace, user_id, k, fail) ==
    LET out == query_documents(query, namespace, user_id, route_k(k), fail)
    IN  IF blank(query)
        THEN [Call("route_query") EXCEPT
                 !.http = 400, !.error = "Query cannot be empty"]
        ELSE [out EXCEPT !.op = "route_query",
                         !.http = IF out.success THEN 200 ELSE 400]

RouteQuery(query, namespace, user_id, k, fail) ==
    /\ app = "backend"
    /\ last' = route_query(query, namespace, user_id, k, fail)
    /\ UNCHANGED <<chunker_vars, workers, chat_sessions, app, tier_limits, users, pc, embeddings, llm, document_sets,
                   legalai_index, hf_index, uuids>>

\* Final/main.py retrieve_and_answer behind POST /query: the vector store and
\* the chain are built before the try, only qa_chain.invoke is inside it
retrieve_and_answer(query, namespace, fail) ==
    LET call == Call("final_query")
    IN  IF fail \in {"open_store", "build_chain"}
        THEN [call EXCEPT !.raised = TRUE, !.http = 500]
        ELSE IF fail # "none"
        THEN [call EXCEPT !.http = 200, !.error = "backend error",
                          !.searched = search_issued(fail),
                          !.search_k = IF search_issued(fail) THEN FinalK ELSE 0]
        ELSE [call EXCEPT !.http = 200, !.success = TRUE, !.searched = TRUE,
                          !.search_k = FinalK,
                          !.sources = vector_search(hf_index, namespace, FinalK)]

FinalQuery(query, namespace, fail) ==
    /\ app = "final"
    /\ last' = retrieve_and_answer(query, namespace, fail)
    /\ UNCHANGED <<chunker_vars, workers, chat_sessions, app, tier_limits, users, pc, embeddings, llm, document_sets,
                   legalai_index, hf_index, uuids>>

\* ------------------------------------------------------------------ delete
\* RAGService.delete_document_set: only the registry record goes
delete_document_set(namespace, user_id) ==
    IF namespace_access(document_sets, namespace, user_id)
    THEN [sets |-> db_delete_document_set(document_sets, namespace),
          call |-> [Call("delete") EXCEPT !.success = TRUE]]
    ELSE [sets |-> document_sets,
          call |-> [Call("delete") EXCEPT !.error =
                       "Document set not found or access denied"]]

\* a delete that also deletes the vectors of the namespace
DeleteWithVectors(namespace, user_id) ==
    /\ app = "backend"
    /\ document_sets' = delete_document_set(namespace, user_id).sets
    /\ last' = delete_document_set(namespace, user_id).call
    /\ legalai_index' = IF last'.success
                        THEN [legalai_index EXCEPT ![namespace] = <<>>]
                        ELSE legalai_index
    /\ UNCHANGED <<chunker_vars, workers, chat_sessions, app, tier_limits,
                   users, pc, embeddings, llm, hf_index, uuids>>

DeleteDocumentSet(namespace, user_id) ==
    /\ app = "backend"
    /\ document_sets' = delete_document_set(namespace, user_id).sets
    /\ last' = delete_document_set(namespace, user_id).call
    /\ UNCHANGED <<chunker_vars, workers, chat_sessions, app, tier_limits, users, pc, embeddings, llm,
                   legalai_index, hf_index, uuids>>

\* GET /rag/document-sets for the authenticated user: one entry per record of
\* get_user_document_sets (a file path is its file name here, so file_names
\* is file_paths)
route_document_sets(user_id) ==
    {[id |-> n,
      file_names |-> document_sets[n].file_paths,
      chunk_count |-> document_sets[n].chunk_count,
      status |-> document_sets[n].status] :
        n \in get_user_document_sets(document_sets, user_id)}

GetDocumentSets(user_id) ==
    /\ app = "backend"
    /\ last' = [Call("list") EXCEPT
                   !.success = TRUE, !.http = 200,
                   !.document_sets = route_document_sets(user_id)]
    /\ UNCHANGED <<chunker_vars, workers, chat_sessions, app, tier_limits,
                   users, pc, embeddings, llm, document_sets, legalai_index,
                   hf_index, uuids>>

\* DELETE /rag/document-sets/{namespace} for the authenticated user
route_delete(namespace, user_id) ==
    LET out == delete_document_set(namespace, user_id)
    IN  [sets |-> out.sets,
         call |-> [out.call EXCEPT !.op = "route_delete",
                                   !.http = IF out.call.success THEN 200 ELSE 400]]

RouteDelete(namespace, user_id) ==
    /\ app = "backend"
    /\ document_sets' = route_delete(namespace, user_id).sets
    /\ last' = route_delete(namespace, user_id).call
    /\ UNCHANGED <<chunker_vars, workers, chat_sessions, app, tier_limits, users, pc, embeddings, llm,
                   legalai_index, hf_index, uuids>>

\* ------------------------------------------------------------ specification
InitCommon ==
    /\ app \in {"backend", "final"}
    /\ pc \in (IF app = "backend" THEN BOOLEAN ELSE {TRUE})
    /\ embeddings \in (IF app = "backend" THEN BOOLEAN ELSE {TRUE})
    /\ llm \in (IF app = "backend" THEN BOOLEAN ELSE {TRUE})
    /\ document_sets = [n \in {} |-> DocumentSet("", <<>>, 0)]
    /\ legalai_index = [n \in Namespaces |-> <<>>]
    /\ hf_index = [n \in FinalNamespaces |-> <<>>]
    /\ uuids = 0
    /\ last = NoCall
    /\ all_docs = <<>>
    /\ semantic_chunks = <<>>
    /\ workers = <<>>
    /\ chat_sessions = <<>>

\* the program as shipped, with the users on any tiers
Init ==
    /\ tier_limits = TIER_LIMITS
    /\ users \in [Users -> Tiers]
    /\ InitCommon

\* the program with document_upload listed for the paid tiers
InitEntitled ==
    /\ tier_limits = EntitledTierLimits
    /\ users = [u \in Users |-> IF u = "alice" THEN "Premium" ELSE "Standard"]
    /\ InitCommon

Next ==
    \/ \E u \in Callers, f \in FileLists, b \in BatchSizes : ServiceUpload(u, f, b)
    \/ \E u \in Users, f \in FileLists : RouteUpload(u, f)
    \/ \E f \in FileLists, b \in BatchSizes : FinalUpload(f, b)
    \/ \E q \in Questions, n \in Namespaces, u \in Users, k \in KInputs,
          x \in QuerySteps : ServiceQuery(q, n, u, k, x)
    \/ \E q \in Questions, n \in Namespaces, u \in Users, k \in KInputs,
          x \in QuerySteps : RouteQuery(q, n, u, k, x)
    \/ \E q \in Questions, n \in FinalNamespaces, x \in QuerySteps : FinalQuery(q, n, x)
    \/ \E n \in Namespaces, u \in Users : DeleteDocumentSet(n, u)
    \/ \E n \in Namespaces, u \in Users : RouteDelete(n, u)
    \/ \E u \in Users : GetDocumentSets(u)

Spec == Init /\ [][Next]_vars

SpecEntitled == InitEntitled /\ [][Next]_vars

\* ---------------------------------------------------- interleaved registry
\* The registry calls of server processes that share data/document_sets.json.
\* JSONDatabase reads the whole file (_load_data) and later rewrites the whole
\* file (_save_data) with no lock between the two, so the unit of
\* interleaving is one read or one write of the file.
Workers == 1..2

IdleWorker ==
    [pc |-> "idle", op |-> "none", ns |-> NoNamespace, user_id |-> "",
     chunk_count |-> 0, data |-> <<>>, success |-> FALSE]

\* a worker that starts a request no longer holds the result of its last one
returned(ws) ==
    [w \in DOMAIN ws |-> IF ws[w].pc = "done" THEN IdleWorker ELSE ws[w]]

\* process_and_store_documents up to and including the _load_data of
\* db.store_document_set: the namespace is drawn, every batch is written
\* (n chunks), the file is read
WorkerStoreLoad(w, user_id, n) ==
    /\ workers[w].pc \in {"idle", "done"}
    /\ uuids < MaxNamespaces
    /\ check_feature_access(user_id, "document_upload")
    /\ backends_configured
    /\ uuids' = uuids + 1
    /\ legalai_index' = add_vectors(legalai_index, <<user_id, uuids + 1>>,
                                    [j \in 1..n |-> j])
    /\ workers' = [returned(workers) EXCEPT ![w] =
                     [pc |-> "loaded", op |-> "store",
                      ns |-> <<user_id, uuids + 1>>, user_id |-> user_id,
                      chunk_count |-> n, data |-> document_sets,
                      success |-> FALSE]]
    /\ UNCHANGED <<chunker_vars, chat_sessions, app, tier_limits, users, pc,
                   embeddings, llm, document_sets, hf_index, last>>

\* delete_document_set up to its ownership test on db.get_document_set
WorkerDeleteCheck(w, namespace, user_id) ==
    /\ workers[w].pc \in {"idle", "done"}
    /\ workers' = [returned(workers) EXCEPT ![w] =
                     [IdleWorker EXCEPT
                        !.pc = IF namespace_access(document_sets, namespace, user_id)
                               THEN "checked" ELSE "done",
                        !.op = "delete", !.ns = namespace,
                        !.user_id = user_id]]
    /\ UNCHANGED <<chunker_vars, chat_sessions, app, tier_limits, users, pc,
                   embeddings, llm, document_sets, legalai_index, hf_index,
                   uuids, last>>

\* the _load_data of db.delete_document_set
WorkerDeleteLoad(w) ==
    /\ workers[w].pc = "checked"
    /\ workers' = [workers EXCEPT ![w].pc = "loaded", ![w].data = document_sets]
    /\ UNCHANGED <<chunker_vars, chat_sessions, app, tier_limits, users, pc,
                   embeddings, llm, document_sets, legalai_index, hf_index,
                   uuids, last>>

\* the rest of db.store_document_set or db.delete_document_set: the copy that
\* was read is changed and written back, and the service returns success
WorkerSave(w) ==
    /\ workers[w].pc = "loaded"
    /\ document_sets' =
           IF workers[w].op = "store"
           THEN store_document_set(workers[w].data, workers[w].ns,
                    DocumentSet(workers[w].user_id, <<"a.pdf">>,
                                workers[w].chunk_count))
           ELSE IF workers[w].ns \in DOMAIN workers[w].data
           THEN db_delete_document_set(workers[w].data, workers[w].ns)
           ELSE document_sets
    /\ workers' = [workers EXCEPT ![w].pc = "done", ![w].success = TRUE]
    /\ UNCHANGED <<chunker_vars, chat_sessions, app, tier_limits, users, pc,
                   embeddings, llm, legalai_index, hf_index, uuids, last>>

InitInterleaved ==
    /\ app = "backend"
    /\ tier_limits = EntitledTierLimits
    /\ users = [u \in Users |-> IF u = "alice" THEN "Premium" ELSE "Standard"]
    /\ pc = TRUE /\ embeddings = TRUE /\ llm = TRUE
    /\ document_sets = [n \in {} |-> DocumentSet("", <<>>, 0)]
    /\ legalai_index = [n \in Namespaces |-> <<>>]
    /\ hf_index = [n \in FinalNamespaces |-> <<>>]
    /\ uuids = 0
    /\ last = NoCall
    /\ all_docs = <<>>
    /\ semantic_chunks = <<>>
    /\ workers = [w \in Workers |-> IdleWorker]
    /\ chat_sessions = <<>>

NextInterleaved ==
    \/ \E w \in Workers, u \in Users, n \in {1, MaxChunks} : WorkerStoreLoad(w, u, n)
    \/ \E w \in Workers, n \in Namespaces, u \in Users : WorkerDeleteCheck(w, n, u)
    \/ \E w \in Workers : WorkerDeleteLoad(w)
    \/ \E w \in Workers : WorkerSave(w)

SpecInterleaved == InitInterleaved /\ [][NextInterleaved]_vars

\* ------------------------------------------------------------ chat sessions
\* chat_sessions.json: session id -> [user_id, messages]. A message is its
\* role and, in place of its text, the user whose call added it.
MaxSessions == 2
MaxMessages == 4

SessionIds == 1..MaxSessions
\* session_id None or ""
NoSession == 0
GeminiOutcomes == {"no_key", "answers", "raises"}

Message(role, by) == [role |-> role, by |-> by]

\* JSONDatabase.create_chat_session
create_chat_session(sessions, session_id, user_id) ==
    [s \in DOMAIN sessions \cup {session_id} |->
        IF s = session_id THEN [user_id |-> user_id, messages |-> <<>>]
        ELSE sessions[s]]

\* JSONDatabase.add_message_to_session
add_message_to_session(sessions, session_id, message) ==
    IF session_id \in DOMAIN sessions
    THEN [sessions EXCEPT ![session_id].messages = Append(@, message)]
    ELSE sessions

\* LegalChatService.get_legal_advice: the sessions file, the uuid4 draws and
\* the call record it leaves
get_legal_advice(user_id, session_id, gemini) ==
    LET call == Call("advice")
        created == session_id = NoSession
        sid == IF created THEN uuids + 1 ELSE session_id
        opened == IF created
                  THEN create_chat_session(chat_sessions, sid, user_id)
                  ELSE chat_sessions
        asked == add_message_to_session(opened, sid, Message("user", user_id))
        answered == add_message_to_session(asked, sid,
                                           Message("assistant", user_id))
        drawn == IF created THEN uuids + 1 ELSE uuids
    IN  IF ~check_feature_access(user_id, "chat_advice")
        THEN [sessions |-> chat_sessions, uuids |-> uuids,
              call |-> [call EXCEPT !.error =
                  "Chat advice not available for your subscription tier"]]
        ELSE IF gemini = "no_key"
        THEN [sessions |-> asked, uuids |-> drawn,
              call |-> [call EXCEPT !.session_id = sid,
                                    !.error = "Gemini API key not configured"]]
        ELSE IF gemini = "raises"
        THEN [sessions |-> asked, uuids |-> drawn,
              call |-> [call EXCEPT !.session_id = sid,
                                    !.error = "Failed to get legal advice"]]
        ELSE [sessions |-> answered, uuids |-> drawn,
              call |-> [call EXCEPT !.session_id = sid, !.success = TRUE]]

GetLegalAdvice(user_id, session_id, gemini) ==
    LET out == get_legal_advice(user_id, session_id, gemini)
    IN  /\ out.uuids <= MaxSessions
        /\ \A s \in DOMAIN out.sessions :
               Len(out.sessions[s].messages) <= MaxMessages
        /\ chat_sessions' = out.sessions
        /\ uuids' = out.uuids
        /\ last' = out.call
        /\ UNCHANGED <<chunker_vars, workers, app, tier_limits, users, pc,
                       embeddings, llm, document_sets, legalai_index, hf_index>>

\* LegalChatService.get_chat_session: the session, for its owner only
get_chat_session(session_id, user_id) ==
    IF session_id \notin DOMAIN chat_sessions
       \/ chat_sessions[session_id].user_id # user_id
    THEN [Call("get_session") EXCEPT
             !.session_id = session_id,
             !.error = "Session not found or access denied"]
    ELSE [Call("get_session") EXCEPT
             !.session_id = session_id, !.success = TRUE,
             !.sources = chat_sessions[session_id].messages]

GetChatSession(session_id, user_id) ==
    /\ last' = get_chat_session(session_id, user_id)
    /\ UNCHANGED <<chunker_vars, workers, chat_sessions, app, tier_limits,
                   users, pc, embeddings, llm, document_sets, legalai_index,
                   hf_index, uuids>>

InitChat ==
    /\ app = "backend"
    /\ tier_limits = TIER_LIMITS
    /\ users = [u \in Users |-> IF u = "alice" THEN "Premium" ELSE "Basic"]
    /\ pc = TRUE /\ embeddings = TRUE /\ llm = TRUE
    /\ document_sets = [n \in {} |-> DocumentSet("", <<>>, 0)]
    /\ legalai_index = [n \in Namespaces |-> <<>>]
    /\ hf_index = [n \in FinalNamespaces |-> <<>>]
    /\ uuids = 0
    /\ last = NoCall
    /\ all_docs = <<>>
    /\ semantic_chunks = <<>>
    /\ workers = <<>>
    /\ chat_sessions = [s \in {} |-> [user_id |-> "", messages |-> <<>>]]

NextChat ==
    \/ \E u \in Callers, s \in SessionIds \cup {NoSession},
          g \in GeminiOutcomes : GetLegalAdvice(u, s, g)
    \/ \E s \in SessionIds, u \in Callers : GetChatSession(s, u)

SpecChat == InitChat /\ [][NextChat]_vars

\* ------------------------------------------------------------------ chunker
\* A text is the sequence of its characters.
MaxChunkChars == 2000
MinChunkChars == 100
SnippetChars == 300

Whitespace == {" ", "\n"}
Terminators == {".", "!", "?"}
ParagraphBreak == <<"\n", "\n">>
Ellipsis == <<".", ".", ".">>

Rep(c, n) == [i \in 1..n |-> c]

\* str.strip()
strip(s) ==
    IF \A i \in 1..Len(s) : s[i] \in Whitespace
    THEN <<>>
    ELSE LET first == CHOOSE i \in 1..Len(s) :
                          /\ s[i] \notin Whitespace
                          /\ \A j \in 1..(i - 1) : s[j] \in Whitespace
             final == CHOOSE i \in 1..Len(s) :
                          /\ s[i] \notin Whitespace
                          /\ \A j \in (i + 1)..Len(s) : s[j] \in Whitespace
         IN  SubSeq(s, first, final)

\* a paragraph break starts at position i of text
break_at(text, i) == text[i] = "\n" /\ text[i + 1] = "\n"

\* text.split('\n\n')
RECURSIVE split_paragraphs(_)
split_paragraphs(text) ==
    IF \A i \in 1..(Len(text) - 1) : ~break_at(text, i)
    THEN <<text>>
    ELSE LET i == CHOOSE i \in 1..(Len(text) - 1) :
                      /\ break_at(text, i)
                      /\ \A j \in 1..(i - 1) : ~break_at(text, j)
         IN  <<SubSeq(text, 1, i - 1)>>
                 \o split_paragraphs(SubSeq(text, i + 2, Len(text)))

\* the overlap with no sentence carried over
no_overlap(current_chunk) == <<>>

\* sentences = re.split(r'[.!?]+', current_chunk);
\* sentences[-1].strip() if len(sentences) > 1 else ""
overlap(current_chunk) ==
    IF \A i \in 1..Len(current_chunk) : current_chunk[i] \notin Terminators
    THEN <<>>
    ELSE LET i == CHOOSE i \in 1..Len(current_chunk) :
                      /\ current_chunk[i] \in Terminators
                      /\ \A j \in (i + 1)..Len(current_chunk) :
                             current_chunk[j] \notin Terminators
         IN  strip(SubSeq(current_chunk, i + 1, Len(current_chunk)))

Document(page_content, metadata) ==
    [page_content |-> page_content, metadata |-> metadata]

\* the loop body with a paragraph cut at the chunk limit
chunk_step_cut(st, paragraph, metadata) ==
    LET para == SubSeq(strip(paragraph), 1,
                       Min(Len(strip(paragraph)), MaxChunkChars))
        current_chunk == st.current_chunk
    IN  IF para = <<>> THEN st
        ELSE IF Len(current_chunk) + Len(para) > MaxChunkChars
                /\ current_chunk # <<>>
        THEN [chunks |-> Append(st.chunks,
                                Document(strip(current_chunk), metadata)),
              current_chunk |-> para]
        ELSE [chunks |-> st.chunks,
              current_chunk |->
                  IF current_chunk # <<>>
                  THEN current_chunk \o <<" ">> \o para
                  ELSE para]

\* one pass of the loop over the paragraphs of a page; st holds the chunks
\* appended so far and current_chunk
chunk_step(st, paragraph, metadata) ==
    LET para == strip(paragraph)
        current_chunk == st.current_chunk
    IN  IF para = <<>> THEN st
        ELSE IF Len(current_chunk) + Len(para) > MaxChunkChars
                /\ current_chunk # <<>>
        THEN [chunks |-> Append(st.chunks,
                                Document(strip(current_chunk), metadata)),
              current_chunk |->
                  IF overlap(current_chunk) # <<>>
                  THEN overlap(current_chunk) \o <<" ">> \o para
                  ELSE para]
        ELSE [chunks |-> st.chunks,
              current_chunk |->
                  IF current_chunk # <<>>
                  THEN current_chunk \o <<" ">> \o para
                  ELSE para]

\* the loop entered with a buffer that was not emptied: it still holds the
\* text of the page's last paragraph
RECURSIVE chunk_loop_unreset(_, _, _)
chunk_loop_unreset(paragraphs, m, metadata) ==
    IF m = 0
    THEN [chunks |-> <<>>,
          current_chunk |-> strip(paragraphs[Len(paragraphs)])]
    ELSE chunk_step(chunk_loop_unreset(paragraphs, m - 1, metadata),
                    paragraphs[m], metadata)

\* the loop over the first m paragraphs of a page
RECURSIVE chunk_loop(_, _, _)
chunk_loop(paragraphs, m, metadata) ==
    IF m = 0 THEN [chunks |-> <<>>, current_chunk |-> <<>>]
    ELSE chunk_step(chunk_loop(paragraphs, m - 1, metadata), paragraphs[m],
                    metadata)

\* the chunks appended for one page, the last buffer included
page_chunks(doc) ==
    LET paragraphs == split_paragraphs(doc.page_content)
        st == chunk_loop(paragraphs, Len(paragraphs), doc.metadata)
    IN  IF strip(st.current_chunk) # <<>>
        THEN Append(st.chunks, Document(strip(st.current_chunk), doc.metadata))
        ELSE st.chunks

\* the pages taken last to first
appended_backwards(docs) ==
    flatten([i \in 1..Len(docs) |-> page_chunks(docs[Len(docs) + 1 - i])])

\* semantic_chunks before the filter
appended_chunks(docs) == flatten([i \in 1..Len(docs) |-> page_chunks(docs[i])])

\* the filter passing every chunk
keeps_all(chunk) == TRUE

\* len(chunk.page_content) > 100
long_enough(chunk) == Len(chunk.page_content) > MinChunkChars

semantic_chunk_documents(docs) == SelectSeq(appended_chunks(docs), long_enough)

\* the snippet cut without the ellipsis
snippet_cut(page_content) == SubSeq(page_content, 1, Min(Len(page_content), SnippetChars))

\* doc.page_content[:300] + ("..." if len(doc.page_content) > 300 else "")
snippet(page_content) ==
    SubSeq(page_content, 1, Min(Len(page_content), SnippetChars))
        \o (IF Len(page_content) > SnippetChars THEN Ellipsis ELSE <<>>)

\* the sources list of query_documents for the documents the chain returned
format_sources(source_documents) ==
    [i \in 1..Len(source_documents) |->
        [content |-> snippet(source_documents[i].page_content),
         metadata |-> source_documents[i].metadata]]

\* ---- inputs of the chunker
\* paragraphs of one page, pages of one file, files of one ingestion
MaxParagraphs == 2
MaxPages == 2

\* paragraph texts: a short one with blanks around it, two at the snippet
\* limit, one of 1000 characters that ends at a full stop, one of 1200 whose
\* last sentence has 1047 characters, and one of 2100 with a sentence end
\* inside
ParagraphTexts ==
    { <<" ">> \o Rep("a", 60) \o <<"\n">>,
      Rep("n", SnippetChars),
      Rep("m", SnippetChars + 1),
      Rep("e", 999) \o <<".">>,
      Rep("b", 150) \o <<"?", "!", " ">> \o Rep("c", 1047),
      Rep("x", 1500) \o <<".">> \o Rep("y", 599) }

\* '\n\n'.join(paragraphs)
RECURSIVE join(_)
join(paragraphs) ==
    IF paragraphs = <<>> THEN <<>>
    ELSE IF Len(paragraphs) = 1 THEN paragraphs[1]
    ELSE paragraphs[1] \o ParagraphBreak \o join(Tail(paragraphs))

PageTexts ==
    {join(ps) : ps \in UNION {[1..m -> ParagraphTexts] : m \in 0..MaxParagraphs}}

\* the page texts of up to MaxPages pages, in reading order
PageSequences == UNION {[1..m -> PageTexts] : m \in 0..MaxPages}

RECURSIVE Sum(_)
Sum(ns) == IF ns = <<>> THEN 0 ELSE Head(ns) + Sum(Tail(ns))

\* the ways n pages are spread over files that have a page each at least
FileSizes(n) ==
    {sizes \in UNION {[1..m -> 1..n] : m \in 0..n} : Sum(sizes) = n}

\* what the loaders return for the files of one ingestion: file f, a list of
\* pages, each carrying its file and page number as metadata
loaded_files(texts, sizes) ==
    [f \in 1..Len(sizes) |->
        [q \in 1..sizes[f] |->
            Document(texts[Sum(SubSeq(sizes, 1, f - 1)) + q], <<f, q>>)]]

LoadedFiles ==
    UNION {{loaded_files(texts, sizes) : sizes \in FileSizes(Len(texts))} :
              texts \in PageSequences}

\* all_docs.extend(self.load_documents(fp)) for every file
load_all(files) == flatten(files)

\* the documents the retriever returns for a search with limit k, when the
\* namespace holds `chunks`
retrieved(chunks, k) == SubSeq(chunks, 1, Min(k, Len(chunks)))

\* semantic_chunk_documents(all_docs)
SemanticChunk ==
    /\ last.op = "none"
    /\ semantic_chunks' = semantic_chunk_documents(all_docs)
    /\ last' = [Call("chunk") EXCEPT !.chunks = Len(semantic_chunks')]
    /\ UNCHANGED <<all_docs, workers, chat_sessions, app, tier_limits, users, pc, embeddings, llm,
                   document_sets, legalai_index, hf_index, uuids>>

\* the sources of a query that retrieved the first k chunks
FormatSources(k) ==
    /\ last.op = "chunk"
    /\ last' = [Call("format") EXCEPT
                   !.success = TRUE,
                   !.sources = format_sources(retrieved(semantic_chunks, k))]
    /\ UNCHANGED <<chunker_vars, workers, chat_sessions, app, tier_limits, users, pc, embeddings, llm,
                   document_sets, legalai_index, hf_index, uuids>>

InitChunker ==
    /\ app = "backend"
    /\ tier_limits = TIER_LIMITS
    /\ users = [u \in Users |-> IF u = "alice" THEN "Premium" ELSE "Standard"]
    /\ pc = TRUE /\ embeddings = TRUE /\ llm = TRUE
    /\ document_sets = [n \in {} |-> DocumentSet("", <<>>, 0)]
    /\ legalai_index = [n \in Namespaces |-> <<>>]
    /\ hf_index = [n \in FinalNamespaces |-> <<>>]
    /\ uuids = 0
    /\ last = NoCall
    /\ all_docs \in {load_all(files) : files \in LoadedFiles}
    /\ semantic_chunks = <<>>
    /\ workers = <<>>
    /\ chat_sessions = <<>>

NextChunker ==
    \/ SemanticChunk
    \/ \E k \in {DefaultK} : FormatSources(k)

\* the chunker and the formatting of sources on their own
SpecChunker == InitChunker /\ [][NextChunker]_vars

\* ===================================================================
\* Claims
\* ===================================================================
AccessDeniedError == "Document set not found or access denied"

owned_by(namespace, user_id) ==
    /\ namespace \in DOMAIN document_sets
    /\ document_sets[namespace].user_id = user_id

\* the results of the two backend query entry points for one request
backend_answers(q, n, u, k, x) ==
    {query_documents(q, n, u, k, x), route_query(q, n, u, k, x)}

\* C1: in RAGService.query_documents, called directly or behind POST
\* /rag/query, a vector search is sent for (namespace n, user u) only when the
\* registry holds a record of n whose user_id is u, and every source returned
\* to u is a chunk stored under a namespace whose record names u as owner.
C1_OwnershipPrecedesSearch ==
    \A q \in Questions, n \in Namespaces, u \in Users, k \in KInputs,
       x \in QuerySteps :
        \A r \in backend_answers(q, n, u, k, x) :
            /\ r.searched => owned_by(n, u)
            /\ \A i \in DOMAIN r.sources : owned_by(r.sources[i][1], u)

\* alice and bob each own a namespace with stored chunks, the last query got
\* chunks of alice's namespace, and bob's query of it is refused
C1_Witness ==
    \E n, m \in Namespaces :
        /\ owned_by(n, "alice") /\ owned_by(m, "bob")
        /\ legalai_index[n] # <<>> /\ legalai_index[m] # <<>>
        /\ last.op = "query" /\ last.success
        /\ last.sources # <<>> /\ last.sources[1][1] = n
        /\ query_documents("what is the notice period", n, "bob", DefaultK,
                           "none").error = AccessDeniedError

\* C2: on every query entry point (RAGService.query_documents, POST /rag/query,
\* Final/main.py retrieve_and_answer) a query naming a namespace with no
\* registry record sends no vector search and returns no chunk.
C2_UnregisteredNotQueryable ==
    /\ \A q \in Questions, n \in Namespaces, u \in Users, k \in KInputs,
          x \in QuerySteps :
           \A r \in backend_answers(q, n, u, k, x) :
               n \notin DOMAIN document_sets =>
                   ~r.searched /\ r.sources = <<>>
    /\ \A q \in Questions, n \in FinalNamespaces, x \in QuerySteps :
           n \notin DOMAIN document_sets =>
               /\ ~retrieve_and_answer(q, n, x).searched
               /\ retrieve_and_answer(q, n, x).sources = <<>>

ServiceRequests ==
    {r \in [u : Callers, f : FileLists, b : BatchSizes,
            n : 0..MaxChunks, fail_at : 0..MaxChunks] :
        [n |-> r.n, fail_at |-> r.fail_at] \in IngestInputs(r.f, r.b)}

service_outcome(r) ==
    process_and_store_documents(r.u, r.f, r.b, r.n, r.fail_at)

all_batches(r) == 1..Len(batch_list(r.n, r.b))

\* C4: in process_and_store_documents db.store_document_set is called only
\* after every batch was stored; when a batch write fails the call returns an
\* error, the registry is left as it was and holds no record of the namespace
\* the call drew; and a namespace enters the registry only in the step of the
\* ingestion that drew it, after all its batches were stored, so the namespace
\* of a failed ingestion is never registered.
C4_RegisteredOnlyAfterAllBatches ==
    /\ [](\A r \in ServiceRequests :
            LET out == service_outcome(r)
            IN  /\ out.call.registered =>
                     out.call.success /\ out.call.stored = all_batches(r)
                /\ out.sets # document_sets => out.call.registered
                /\ (draws_namespace(out) /\ r.fail_at # 0) =>
                     /\ ~out.call.success /\ ~out.call.registered
                     /\ out.sets = document_sets
                     /\ out.call.ns \notin DOMAIN out.sets
                     /\ out.call.ns \notin get_user_document_sets(out.sets, r.u))
    /\ []((last.op \in {"ingest", "route_upload"} /\ last.ns # NoNamespace
             /\ ~last.success) =>
            /\ last.ns \notin DOMAIN document_sets
            /\ \A q \in Questions, u \in Users, k \in KInputs, x \in QuerySteps :
                   ~query_documents(q, last.ns, u, k, x).success)
    /\ [][\A n \in DOMAIN document_sets' \ DOMAIN document_sets :
            /\ uuids' = uuids + 1 /\ n[2] = uuids'
            /\ last'.ns = n /\ last'.registered /\ last'.success
            /\ Len(legalai_index'[n]) = last'.chunks
            /\ document_sets'[n].chunk_count = last'.chunks]_vars

\* the second of two batches failed: the first is in the index under a
\* namespace that has no record
C4_Witness ==
    /\ last.op = "ingest" /\ ~last.success /\ ~last.registered
    /\ last.stored = {1} /\ Len(last.attempted) = 2
    /\ legalai_index[last.ns] # <<>>
    /\ last.ns \notin DOMAIN document_sets
    /\ DOMAIN document_sets # {}

\* the requests of one ingestion through Final/main.py
FinalRequests ==
    {r \in [f : FileLists, b : BatchSizes, n : 0..MaxChunks,
            failing : SUBSET (1..MaxChunks)] :
        /\ r.f = <<>> => r.n = 0
        /\ r.failing \subseteq 1..Len(batch_list(r.n, r.b))}

final_outcome(r) == final_upload(r.f, r.b, r.n, r.failing)

CeilDiv(n, b) == IF n % b = 0 THEN n \div b ELSE (n \div b) + 1

\* batch j of n chunks in batches of b: chunks (j-1)*b .. min(j*b, n)-1 of the
\* list, which are the positions (j-1)*b+1 .. min(j*b, n)
expected_batch(j, n, b) ==
    [x \in 1..(Min(j * b, n) - (j - 1) * b) |-> (j - 1) * b + x]

expected_batches(n, b) == [j \in 1..CeilDiv(n, b) |-> expected_batch(j, n, b)]

\* C6: for n chunks and batch size b both pipelines cut the chunk list into
\* ceil(n/b) batches, batch j holding chunks (j-1)*b .. min(j*b, n)-1 in their
\* order: every batch but the last has b chunks, none is empty, every chunk is
\* in exactly one batch, and n = 0 gives no batch. An ingestion writes these
\* batches in this order (RAGService up to the batch that fails), and a
\* successful one leaves the n chunks in order under its namespace.
C6_BatchAssignment ==
    /\ \A n \in 0..MaxChunks, b \in BatchSizes :
           LET bl == batch_list(n, b)
           IN  /\ bl = expected_batches(n, b)
               /\ Len(bl) = total_batches(n, b)
               /\ n = 0 => bl = <<>>
               /\ \A j \in 1..Len(bl) :
                      /\ Len(bl[j]) >= 1
                      /\ j < Len(bl) => Len(bl[j]) = b
               /\ flatten(bl) = [i \in 1..n |-> i]
    /\ \A r \in ServiceRequests :
           LET out == service_outcome(r)
           IN  draws_namespace(out) =>
                 /\ \A j \in DOMAIN out.call.attempted :
                        out.call.attempted[j] = expected_batch(j, r.n, r.b)
                 /\ out.call.success =>
                        out.call.attempted = expected_batches(r.n, r.b)
                 /\ (out.call.success /\ uuids < MaxNamespaces) =>
                        out.index[out.call.ns] = [i \in 1..r.n |-> i]
    /\ \A r \in FinalRequests :
           LET out == final_outcome(r)
           IN  draws_namespace(out) =>
                 /\ out.call.attempted = expected_batches(r.n, r.b)
                 /\ (out.call.success /\ uuids < MaxNamespaces) =>
                        out.index[out.call.ns] = [i \in 1..r.n |-> i]

\* an ingestion of three chunks in batches of two wrote <<1, 2>> and then
\* <<3>>, and both batches were stored
C6_Witness ==
    /\ last.op \in {"ingest", "final_upload"} /\ last.success
    /\ last.chunks = 3
    /\ last.attempted = << <<1, 2>>, <<3>> >>
    /\ last.stored = {1, 2}

\* C7: for an existing user, with the Pinecone client and the embeddings model
\* available, an ingestion of an empty file list, or of files that load and
\* yield no chunk, succeeds with chunk count 0 and registers a namespace with
\* chunk_count 0 and status "ready", through the service and through POST
\* /rag/upload.
C7_EmptyIngestionSucceeds ==
    \A u \in Users, f \in FileLists :
        (pc /\ embeddings /\ all_loaded(f, supported)) =>
            \A out \in {process_and_store_documents(u, f, DefaultBatchSize, 0, 0),
                        route_upload(u, f, 0, 0)} :
                /\ out.call.success /\ out.call.chunks = 0
                /\ out.call.ns \in DOMAIN out.sets
                /\ out.sets[out.call.ns].chunk_count = 0
                /\ out.sets[out.call.ns].status = "ready"

\* C8: when the Pinecone client or the embeddings model is missing,
\* process_and_store_documents (called directly or by POST /rag/upload) returns
\* an error without a load_documents call, without a batch write and without a
\* change of the registry or the index.
C8_BackendsCheckedFirst ==
    \A r \in ServiceRequests :
        ~(pc /\ embeddings) =>
            \A out \in {service_outcome(r),
                        route_upload(r.u, r.f, r.n, r.fail_at)} :
                /\ ~out.call.success /\ out.call.error # ""
                /\ out.call.loaded = 0
                /\ out.call.attempted = <<>> /\ out.call.stored = {}
                /\ ~out.call.registered /\ ~draws_namespace(out)
                /\ out.sets = document_sets
                /\ out.index = legalai_index

\* a user the gate lets through was stopped by the missing Pinecone client
C8_Witness ==
    /\ ~pc
    /\ last.op = "ingest" /\ ~last.success
    /\ last.error = "Pinecone not configured"
    /\ last.loaded = 0 /\ last.attempted = <<>>
    /\ check_feature_access("alice", "document_upload")

\* C9: when a backend step of answering raises (opening the vector store,
\* building the chain, invoking it), RAGService.query_documents and
\* Final/main.py retrieve_and_answer return an error result and raise nothing.
C9_AnsweringNeverRaises ==
    \A q \in Questions, x \in QuerySteps \ {"none"} :
        /\ \A n \in Namespaces, u \in Users, k \in KInputs :
               LET r == query_documents(q, n, u, k, x)
               IN  ~r.raised /\ ~r.success /\ r.error # "" /\ r.sources = <<>>
        /\ \A n \in FinalNamespaces :
               LET r == retrieve_and_answer(q, n, x)
               IN  ~r.raised /\ ~r.success /\ r.error # "" /\ r.sources = <<>>

C11_BlankRejectedFirst ==
    \A q \in Questions :
        blank(q) =>
            /\ \A n \in Namespaces, u \in Users, k \in KInputs, x \in QuerySteps :
                   \A r \in backend_answers(q, n, u, k, x) :
                       /\ ~r.success /\ ~r.searched
                       /\ r.error = "Query cannot be empty"
            /\ \A n \in FinalNamespaces, x \in QuerySteps :
                   LET r == retrieve_and_answer(q, n, x)
                   IN  /\ ~r.success /\ ~r.searched
                       /\ r.error = "Query cannot be empty"

chunked == last.op \in {"chunk", "format"}

\* C12: the sources of a successful RAGService.query_documents have one entry
\* per retrieved chunk, in the retrieved order; an entry's content is the chunk
\* text unchanged when the text has at most 300 characters, and its first 300
\* characters followed by "..." otherwise; its metadata is the chunk's.
C12_SourcesTruncated ==
    last.op = "format" =>
        LET docs == retrieved(semantic_chunks, DefaultK)
        IN  /\ Len(last.sources) = Len(docs)
            /\ \A i \in 1..Len(docs) :
                   LET text == docs[i].page_content
                       content == last.sources[i].content
                   IN  /\ last.sources[i].metadata = docs[i].metadata
                       /\ Len(text) <= 300 => content = text
                       /\ Len(text) > 300 =>
                            /\ Len(content) = 303
                            /\ \A j \in 1..300 : content[j] = text[j]
                            /\ \A j \in 301..303 : content[j] = "."
                       /\ (Len(content) = Len(text)) <=> (Len(text) <= 300)

\* two chunks were retrieved, one of 300 characters returned whole and one of
\* 301 returned as 300 characters and the ellipsis
C12_Witness ==
    /\ last.op = "format" /\ Len(last.sources) = 2
    /\ Len(semantic_chunks[1].page_content) = 300
    /\ last.sources[1].content = semantic_chunks[1].page_content
    /\ Len(semantic_chunks[2].page_content) = 301
    /\ Len(last.sources[2].content) = 303

\* the page of all_docs a chunk was cut from
page_of(chunk) == CHOOSE i \in 1..Len(all_docs) : all_docs[i].metadata = chunk.metadata

\* the stripped paragraphs of a page
stripped_paragraphs(doc) ==
    LET paragraphs == split_paragraphs(doc.page_content)
    IN  [m \in 1..Len(paragraphs) |-> strip(paragraphs[m])]

\* C13: every chunk semantic_chunk_documents returns has more than 100
\* characters and, unless a paragraph of its page has more than 2000, at most
\* 2000.
C13_ChunkSizeBound ==
    chunked =>
        \A i \in 1..Len(semantic_chunks) :
            LET chunk == semantic_chunks[i]
                paragraphs == stripped_paragraphs(all_docs[page_of(chunk)])
            IN  /\ Len(chunk.page_content) > 100
                /\ (\A m \in 1..Len(paragraphs) : Len(paragraphs[m]) <= 2000)
                       => Len(chunk.page_content) <= 2000

\* <<f, q>> is before <<g, r>> in file order, then page order
precedes(a, b) == a[1] < b[1] \/ (a[1] = b[1] /\ a[2] < b[2])

PageOrders(n) == {pi \in [1..n -> 1..n] : \A i, j \in 1..n : pi[i] = pi[j] => i = j}

\* C14: the pages are chunked in the order of the files and of the pages in a
\* file; the chunk list is the chunks of page 1, then those of page 2 and so
\* on, each page chunked as if alone, so the chunks of an earlier page all
\* precede those of a later one, and the pages handed over in another order
\* give the same chunks per page in that other order.
C14_OrderPreserved ==
    /\ \A i, j \in 1..Len(all_docs) :
           i < j => precedes(all_docs[i].metadata, all_docs[j].metadata)
    /\ chunked =>
           \A i, j \in 1..Len(semantic_chunks) :
               precedes(semantic_chunks[i].metadata, semantic_chunks[j].metadata)
                   => i < j
    /\ last.op = "chunk" =>
           LET alone == [i \in 1..Len(all_docs) |->
                            semantic_chunk_documents(<<all_docs[i]>>)]
           IN  /\ semantic_chunks = flatten(alone)
               /\ \A pi \in PageOrders(Len(all_docs)) :
                      (\E i \in 1..Len(all_docs) : pi[i] # i) =>
                          semantic_chunk_documents(
                              [i \in 1..Len(all_docs) |-> all_docs[pi[i]]])
                            = flatten([i \in 1..Len(all_docs) |-> alone[pi[i]]])

\* two pages with different chunks: those of the first page come first
C14_Witness ==
    /\ last.op = "chunk" /\ Len(all_docs) = 2 /\ Len(semantic_chunks) >= 3
    /\ semantic_chunks[1].metadata = all_docs[1].metadata
    /\ semantic_chunks[Len(semantic_chunks)].metadata = all_docs[2].metadata
    /\ semantic_chunks[1].page_content
           # semantic_chunks[Len(semantic_chunks)].page_content

\* the text after the last sentence terminator of a buffer, trimmed; empty
\* when the buffer has no terminator
trailing_fragment(buffer) ==
    LET ends == {i \in 1..Len(buffer) : buffer[i] \in {".", "!", "?"}}
    IN  IF ends = {} THEN <<>>
        ELSE LET t == CHOOSE i \in ends : \A j \in ends : j <= i
             IN  strip(SubSeq(buffer, t + 1, Len(buffer)))

\* C15: whenever the chunker comes to a paragraph P with a non-empty buffer
\* and len(buffer) + len(P) > 2000, it appends the buffer to its chunk list
\* and starts the next buffer with the trimmed text after the buffer's last
\* sentence terminator, one space and P, or with P alone when the buffer has
\* no terminator or nothing follows its last one.
C15_OverlapSeed ==
    last.op = "chunk" =>
    \A d \in 1..Len(all_docs) :
        LET paragraphs == split_paragraphs(all_docs[d].page_content)
        IN  \A m \in 1..Len(paragraphs) :
                LET st == chunk_loop(paragraphs, m - 1, all_docs[d].metadata)
                    P == strip(paragraphs[m])
                    buffer == st.current_chunk
                    next == chunk_loop(paragraphs, m, all_docs[d].metadata)
                IN  (P # <<>> /\ buffer # <<>> /\ Len(buffer) + Len(P) > 2000) =>
                        /\ next.chunks =
                               Append(st.chunks,
                                      Document(strip(buffer), all_docs[d].metadata))
                        /\ next.current_chunk =
                               IF trailing_fragment(buffer) = <<>> THEN P
                               ELSE trailing_fragment(buffer) \o <<" ">> \o P

\* the paragraph of 1200 characters was followed by the one of 1000: the
\* second chunk is the 1047 characters after "?!", a space, and the paragraph
C15_Witness ==
    /\ last.op = "chunk" /\ Len(semantic_chunks) = 2
    /\ Len(semantic_chunks[1].page_content) = 1200
    /\ Len(semantic_chunks[2].page_content) = 1047 + 1 + 1000
    /\ semantic_chunks[2].page_content[1] = "c"
    /\ semantic_chunks[2].page_content[1048] = " "
    /\ semantic_chunks[2].page_content[1049] = "e"

\* text holds piece as one contiguous run
contains(text, piece) ==
    \E o \in 0..(Len(text) - Len(piece)) :
        /\ text[o + 1] = piece[1]
        /\ text[o + Len(piece)] = piece[Len(piece)]
        /\ SubSeq(text, o + 1, o + Len(piece)) = piece

\* C16: a paragraph of more than 2000 characters is whole, as one contiguous
\* run, in one chunk of its page and in no other: the chunks of a page that
\* hold it are as many as the times the page has it.
C16_OversizedParagraphWhole ==
    chunked =>
        \A d \in 1..Len(all_docs) :
            LET paragraphs == stripped_paragraphs(all_docs[d])
            IN  \A m \in 1..Len(paragraphs) :
                    Len(paragraphs[m]) > 2000 =>
                        Cardinality({i \in 1..Len(semantic_chunks) :
                            /\ semantic_chunks[i].metadata = all_docs[d].metadata
                            /\ contains(semantic_chunks[i].page_content,
                                        paragraphs[m])})
                          = Cardinality({n \in 1..Len(paragraphs) :
                                            paragraphs[n] = paragraphs[m]})

\* the paragraph of 2100 characters after the one of 1200: it is whole in a
\* chunk of 1047 + 1 + 2100 characters
C16_Witness ==
    /\ last.op = "chunk" /\ Len(semantic_chunks) = 2
    /\ Len(semantic_chunks[2].page_content) = 1047 + 1 + 2100
    /\ contains(semantic_chunks[2].page_content,
                Rep("x", 1500) \o <<".">> \o Rep("y", 599))

ingested == last.op \in {"ingest", "route_upload", "final_upload"}

\* the outcomes of an ingestion request: that of the service and, for a
\* request the route can make (an authenticated user, the default batch size),
\* that of POST /rag/upload
upload_outcomes(r) ==
    IF r.u \in Users /\ r.b = DefaultBatchSize
    THEN {service_outcome(r), route_upload(r.u, r.f, r.n, r.fail_at)}
    ELSE {service_outcome(r)}

C18_OwnerImmutable ==
    /\ [](\A n \in DOMAIN document_sets : document_sets[n].user_id = n[1])
    /\ [][/\ \A n \in DOMAIN document_sets \cap DOMAIN document_sets' :
                 document_sets'[n].user_id = document_sets[n].user_id
          /\ \A n \in DOMAIN document_sets' \ DOMAIN document_sets :
                 /\ n[2] > uuids
                 /\ document_sets'[n].user_id = n[1]]_vars

\* alice and bob each own a namespace, and bob's delete of a namespace of
\* alice's was just refused
C18_Witness ==
    /\ last.op = "delete" /\ ~last.success
    /\ \E n, m \in Namespaces : owned_by(n, "alice") /\ owned_by(m, "bob")
    /\ uuids = MaxNamespaces

\* C19: after a successful delete_document_set of a namespace, every query of
\* it, by any user, is refused without a vector search, no user's list of
\* document sets shows it, and it never gets a record again; the vectors
\* written under it stay in the index.
C19_DeleteAuthoritative ==
    /\ [](\A n \in Namespaces, u \in Users :
            LET out == delete_document_set(n, u)
            IN  out.call.success =>
                    /\ n \notin DOMAIN out.sets
                    /\ \A v \in Users : n \notin get_user_document_sets(out.sets, v))
    /\ [](\A n \in Namespaces :
            n \notin DOMAIN document_sets =>
                /\ \A v \in Users : n \notin get_user_document_sets(document_sets, v)
                /\ \A q \in Questions, u \in Users, k \in KInputs, x \in QuerySteps :
                       \A r \in backend_answers(q, n, u, k, x) :
                           ~r.success /\ ~r.searched /\ r.sources = <<>>)
    /\ [][/\ (last'.op \in {"delete", "route_delete"} /\ last'.success) =>
                 legalai_index' = legalai_index
          /\ \A n \in Namespaces :
                 (n[2] <= uuids /\ n \notin DOMAIN document_sets) =>
                     n \notin DOMAIN document_sets']_vars

\* a namespace with vectors in the index was just deleted by its owner
C19_Witness ==
    /\ last.op = "delete" /\ last.success
    /\ \E n \in Namespaces :
           /\ n[2] <= uuids /\ n \notin DOMAIN document_sets
           /\ legalai_index[n] # <<>>

\* the results of the two delete entry points for one request
backend_deletes(n, u) == {delete_document_set(n, u), route_delete(n, u)}

\* C20: delete_document_set(n, u), called directly or behind DELETE
\* /rag/document-sets/{namespace}, succeeds exactly when the registry holds a
\* record of n whose user_id is u; otherwise it returns an error and the
\* registry is as before; a successful delete removes the record of n and
\* leaves every other record as it was.
C20_DeleteFrame ==
    \A n \in Namespaces, u \in Users :
        \A out \in backend_deletes(n, u) :
            /\ out.call.success <=> owned_by(n, u)
            /\ ~owned_by(n, u) =>
                   /\ out.call.error # "" /\ out.sets = document_sets
            /\ owned_by(n, u) =>
                   /\ DOMAIN out.sets = DOMAIN document_sets \ {n}
                   /\ \A m \in DOMAIN out.sets : out.sets[m] = document_sets[m]

\* alice's delete through the route removed one of two records, the other,
\* bob's, is still there
C20_Witness ==
    /\ last.op = "route_delete" /\ last.success /\ last.http = 200
    /\ uuids = 2
    /\ \E n \in Namespaces :
           DOMAIN document_sets = {n} /\ document_sets[n].user_id = "bob"

\* C21: get_user_document_sets(u), called directly or behind GET
\* /rag/document-sets, returns the records of the registry whose user_id is u,
\* all of them and no other: a namespace is listed for u exactly when it has a
\* record (it was registered and not deleted since) that names u.
C21_ListIsOwnRecords ==
    /\ \A u \in Callers, n \in Namespaces :
           /\ n \in get_user_document_sets(document_sets, u) <=> owned_by(n, u)
           /\ (\E e \in route_document_sets(u) : e.id = n) <=> owned_by(n, u)
    /\ \A u \in Callers :
           \A e \in route_document_sets(u) :
               /\ e.chunk_count = document_sets[e.id].chunk_count
               /\ e.status = document_sets[e.id].status
    /\ last.op = "list" =>
           \A e \in last.document_sets :
               \E u \in Users : \A f \in last.document_sets : owned_by(f.id, u)

\* alice and bob own a namespace each and the list just returned has one entry
C21_Witness ==
    /\ last.op = "list" /\ Cardinality(last.document_sets) = 1
    /\ \E n, m \in Namespaces : owned_by(n, "alice") /\ owned_by(m, "bob")

\* the registry shows what the request worker w finished was meant to do
effect_present(w) ==
    IF workers[w].op = "store"
    THEN owned_by(workers[w].ns, workers[w].user_id)
    ELSE workers[w].ns \notin DOMAIN document_sets

LongFileLists == UNION {[1..m -> Files] : m \in 0..(MaxFiles + 1)}

\* a file whose extension is neither .pdf nor .docx is in the list
has_other_extension(file_paths) ==
    \E i \in 1..Len(file_paths) : file_paths[i] \notin {"a.pdf", "b.docx"}

\* the call changed nothing and wrote nothing
aborted(out) ==
    /\ ~out.call.success /\ out.call.error # ""
    /\ out.call.attempted = <<>> /\ out.call.stored = {}
    /\ ~out.call.registered /\ out.call.ns = NoNamespace
    /\ out.sets = document_sets /\ out.index = legalai_index
    /\ out.uuids = uuids

\* C23: when the loader of any one file of file_paths fails (an extension other
\* than .pdf or .docx), process_and_store_documents, called directly or through
\* the upload route, returns an error result, writes no batch for any of the
\* files, files loaded before the failing one included, and stores no registry
\* record.
C23_LoaderFailureAborts ==
    /\ [](\A u \in Callers, f \in LongFileLists, b \in BatchSizes,
             n \in 0..MaxChunks :
             has_other_extension(f) =>
                 /\ aborted(process_and_store_documents(u, f, b, n, 0))
                 /\ aborted(route_upload(u, f, n, 0))
                 /\ process_and_store_documents(u, f, b, n, 0).call.loaded
                        <= Len(f))
    /\ [][(last'.op \in {"ingest", "route_upload"}
             /\ last'.error = "Error processing documents: Unsupported file format")
            => /\ document_sets' = document_sets
               /\ legalai_index' = legalai_index
               /\ last'.attempted = <<>> /\ last'.stored = {}]_vars

\* an entitled user's ingestion stopped at the loader of its first file while
\* the registry held a record
C23_Witness ==
    /\ last.op = "ingest" /\ ~last.success
    /\ last.error = "Error processing documents: Unsupported file format"
    /\ last.loaded = 1 /\ last.attempted = <<>>
    /\ pc /\ embeddings
    /\ DOMAIN document_sets # {}

\* C24: every call of query_documents, direct or through POST /rag/query,
\* succeeding or failing, leaves the registry records and the vectors stored
\* under every namespace as they were (and draws no namespace).
C24_QueryReadsOnly ==
    [][last'.op \in {"query", "route_query"} =>
          /\ document_sets' = document_sets
          /\ legalai_index' = legalai_index
          /\ hf_index' = hf_index
          /\ uuids' = uuids]_vars

\* a query through the route was just answered from stored chunks while the
\* registry held two records
C24_Witness ==
    /\ last.op = "route_query" /\ last.success /\ last.sources # <<>>
    /\ Cardinality(DOMAIN document_sets) = 2

\* C25: "document_upload", the feature process_and_store_documents asks for,
\* is in the features of no tier, so for every user of every tier and for an
\* unknown user the call returns the subscription error with no file loaded,
\* no batch written and no record stored, and no ingestion through the backend
\* service ever succeeds: its registry and its index stay empty.
C25_UploadGateClosed ==
    /\ \A t \in Tiers : "document_upload" \notin tier_limits[t]
    /\ \A u \in Callers, f \in LongFileLists, b \in BatchSizes,
          n \in 0..MaxChunks :
           LET out == process_and_store_documents(u, f, b, n, 0)
           IN  /\ out.call.error =
                      "Document upload not available for your subscription tier"
               /\ out.call.loaded = 0
               /\ aborted(out)
    /\ last.op \in {"ingest", "route_upload"} => ~last.success
    /\ app = "backend" =>
           /\ DOMAIN document_sets = {}
           /\ \A n \in Namespaces : legalai_index[n] = <<>>

\* a Platinum user's ingestion of a .pdf file was just refused at the gate
\* with both backends configured
C25_Witness ==
    /\ last.op = "ingest"
    /\ last.error = "Document upload not available for your subscription tier"
    /\ users["alice"] = "Platinum" /\ users["bob"] = "Basic"
    /\ pc /\ embeddings

\* C26: process_and_store_documents writes the batches one after another in
\* batch order; when the write of batch i fails, batches 1..i-1 are in the
\* index under the new namespace and stay there (nothing rolls them back, in
\* that call or later), batch i was the last one attempted, and the vectors of
\* the other namespaces are as before.
C26_SequentialNoRollback ==
    /\ [](\A r \in ServiceRequests :
            LET out == service_outcome(r)
                i == r.fail_at
            IN  (draws_namespace(out) /\ i # 0) =>
                  /\ ~out.call.success
                  /\ DOMAIN out.call.attempted = 1..i
                  /\ \A j \in 1..i :
                         out.call.attempted[j] = expected_batch(j, r.n, r.b)
                  /\ out.call.stored = 1..(i - 1)
                  /\ uuids < MaxNamespaces =>
                       /\ out.index[out.call.ns] =
                              [x \in 1..Min((i - 1) * r.b, r.n) |-> x]
                       /\ \A m \in Namespaces \ {out.call.ns} :
                              out.index[m] = legalai_index[m])
    /\ []((last.op \in {"ingest", "route_upload"} /\ last.ns # NoNamespace
             /\ ~last.success) =>
            /\ last.stored = 1..(Len(last.attempted) - 1)
            /\ legalai_index[last.ns] =
                   stored_chunks(last.attempted, 1..(Len(last.attempted) - 1)))
    /\ [][\A n \in Namespaces :
            (n \notin DOMAIN document_sets' /\ legalai_index[n] # <<>>) =>
                legalai_index'[n] = legalai_index[n]]_vars

\* three chunks in batches of two: the second batch failed and the first is in
\* the index
C26_Witness ==
    /\ last.op = "ingest" /\ last.chunks = 3
    /\ last.attempted = <<<<1, 2>>, <<3>>>>
    /\ last.stored = {1}
    /\ legalai_index[last.ns] = <<1, 2>>

\* C27: every namespace with a registry record has as many chunks in the index
\* as its record's chunk_count says, which is the number of chunks the chunker
\* returned to the ingestion that stored it (after the 100-character filter),
\* and the record's status is "ready".
C27_ChunkCountMatchesIndex ==
    /\ [](\A n \in DOMAIN document_sets :
            /\ n \in Namespaces
            /\ document_sets[n].chunk_count = Len(legalai_index[n])
            /\ document_sets[n].status = "ready")
    /\ [](\A r \in ServiceRequests :
            LET out == service_outcome(r)
            IN  (out.call.registered /\ uuids < MaxNamespaces) =>
                  /\ out.sets[out.call.ns].chunk_count = r.n
                  /\ Len(out.index[out.call.ns]) = r.n
                  /\ out.sets[out.call.ns].status = "ready")
    /\ [][\A n \in DOMAIN document_sets' \ DOMAIN document_sets :
            document_sets'[n].chunk_count = last'.chunks]_vars

\* a registered namespace of three chunks, and one registered with none
C27_Witness ==
    \E n, m \in Namespaces :
        /\ n \in DOMAIN document_sets /\ m \in DOMAIN document_sets
        /\ document_sets[n].chunk_count = 3 /\ Len(legalai_index[n]) = 3
        /\ document_sets[m].chunk_count = 0

\* the non-empty trimmed paragraphs of a page, in order
nonempty_paragraphs(doc) ==
    SelectSeq(stripped_paragraphs(doc), LAMBDA para : para # <<>>)

\* the ways np paragraphs in order are dealt to nc chunks in order, each
\* paragraph to one chunk and each chunk getting one at least
Segmentations(np, nc) ==
    {seg \in [1..np -> 1..nc] :
        /\ \A k \in 1..(np - 1) : seg[k] <= seg[k + 1]
        /\ \A j \in 1..nc : \E k \in 1..np : seg[k] = j}

\* ' '.join(texts)
RECURSIVE join_spaced(_)
join_spaced(texts) ==
    IF texts = <<>> THEN <<>>
    ELSE IF Len(texts) = 1 THEN texts[1]
    ELSE texts[1] \o <<" ">> \o join_spaced(Tail(texts))

\* the paragraphs dealt to chunk j
segment(paragraphs, seg, j) ==
    LET lo == CHOOSE k \in DOMAIN seg :
                  seg[k] = j /\ \A h \in DOMAIN seg : seg[h] = j => k <= h
        hi == CHOOSE k \in DOMAIN seg :
                  seg[k] = j /\ \A h \in DOMAIN seg : seg[h] = j => h <= k
    IN  SubSeq(paragraphs, lo, hi)

\* the overlap part a chunk may start with: nothing in the first chunk of a
\* page, else the trailing fragment of the chunk before it and a space
overlap_part(chunks, j) ==
    IF j = 1 \/ trailing_fragment(chunks[j - 1].page_content) = <<>>
    THEN <<>>
    ELSE trailing_fragment(chunks[j - 1].page_content) \o <<" ">>

\* C28: pages are chunked independently. The chunks appended for a page carry
\* that page's metadata and are made of that page's text alone: the non-empty
\* trimmed paragraphs of the page, in their order, are dealt to the page's
\* chunks in order, each paragraph whole in exactly one chunk, joined by single
\* spaces, after nothing else but the overlap carried from the chunk before it
\* on the same page (none in the page's first chunk). The list before the
\* filter is the pages' chunks one page after the other.
C28_PagesChunkedIndependently ==
    last.op = "chunk" =>
        /\ \A d \in 1..Len(all_docs) :
               LET doc == all_docs[d]
                   paragraphs == nonempty_paragraphs(doc)
                   chunks == page_chunks(doc)
               IN  /\ \A j \in 1..Len(chunks) :
                          chunks[j].metadata = doc.metadata
                   /\ paragraphs = <<>> => chunks = <<>>
                   /\ paragraphs # <<>> =>
                        \E seg \in Segmentations(Len(paragraphs), Len(chunks)) :
                            \A j \in 1..Len(chunks) :
                                chunks[j].page_content =
                                    overlap_part(chunks, j)
                                        \o join_spaced(segment(paragraphs, seg, j))
        /\ appended_chunks(all_docs) =
               flatten([d \in 1..Len(all_docs) |-> page_chunks(all_docs[d])])
        /\ semantic_chunks = SelectSeq(appended_chunks(all_docs), long_enough)

\* two pages: the first gave two chunks, the second starting with the overlap
\* of the first; the second page gave one chunk, with no overlap from the first
\* page, that the filter dropped
C28_Witness ==
    /\ last.op = "chunk" /\ Len(all_docs) = 2
    /\ Len(page_chunks(all_docs[1])) = 2
    /\ overlap_part(page_chunks(all_docs[1]), 2) # <<>>
    /\ Len(page_chunks(all_docs[2])) = 1
    /\ Len(page_chunks(all_docs[2])[1].page_content) = 60
    /\ Len(semantic_chunks) = 2

\* s is the beginning of t
is_prefix(s, t) == Len(s) <= Len(t) /\ SubSeq(t, 1, Len(s)) = s

\* C29: delete_document_set, called directly or through the route, changes
\* only the registry: the vectors of the deleted namespace, like those of
\* every other namespace, are in the index unchanged after it; and no step of
\* the program removes or changes a stored vector: a namespace's vectors only
\* ever grow at the end.
C29_VectorsOutliveDelete ==
    /\ [](\A n \in Namespaces, u \in Users :
            \A out \in backend_deletes(n, u) :
                /\ DOMAIN out = {"sets", "call"}
                /\ \A m \in DOMAIN document_sets \ {n} :
                       m \in DOMAIN out.sets /\ out.sets[m] = document_sets[m])
    /\ [][last'.op \in {"delete", "route_delete"} =>
            /\ legalai_index' = legalai_index
            /\ hf_index' = hf_index]_vars
    /\ [][/\ \A n \in Namespaces :
                is_prefix(legalai_index[n], legalai_index'[n])
          /\ \A n \in FinalNamespaces :
                is_prefix(hf_index[n], hf_index'[n])]_vars

\* bob deleted his namespace of three chunks: no record, three vectors
C29_Witness ==
    /\ last.op \in {"delete", "route_delete"} /\ last.success
    /\ \E n \in Namespaces :
           /\ n[1] = "bob" /\ n[2] <= uuids
           /\ n \notin DOMAIN document_sets
           /\ legalai_index[n] = <<1, 2, 3>>

\* C30: get_legal_advice called by user U with a session id S of the caller's
\* choosing adds messages to S only when S exists and belongs to U, so every
\* message of a session was added by a call of the session's owner, as
\* get_chat_session shows a session to its owner only.
C30_SessionWritesIsolated ==
    /\ \A u \in Callers, s \in SessionIds, g \in GeminiOutcomes :
           LET out == get_legal_advice(u, s, g)
           IN  (s \in DOMAIN chat_sessions /\ out.sessions[s] # chat_sessions[s])
                   => chat_sessions[s].user_id = u
    /\ \A s \in DOMAIN chat_sessions :
           \A i \in 1..Len(chat_sessions[s].messages) :
               chat_sessions[s].messages[i].by = chat_sessions[s].user_id
    /\ \A s \in SessionIds, u \in Callers :
           get_chat_session(s, u).success => chat_sessions[s].user_id = u

====
